---- MODULE Spec2Model ----
(***************************************************************************)
(* Model of api/addReview.js: the serverless handler that receives a       *)
(* review over HTTP, asks the moderation service (Gemini) to classify its  *)
(* text, decides a publication status and inserts the review into the      *)
(* "reviews" table.                                                        *)
(*                                                                         *)
(* One invocation of handler(req, res) is a process r.  JavaScript runs a  *)
(* handler without interruption between two awaits, so the handler is cut  *)
(* at its three awaits (fetch, geminiResponse.json(), insert): one action  *)
(* per synchronous segment.                                                *)
(*                                                                         *)
(* Numbers: safety_score and sentiment_score are modelled in hundredths    *)
(* (0.29 is 29, 0.3 is 30, -0.2 is -20), so the comparisons of the source  *)
(* are comparisons of integers.                                            *)
(***************************************************************************)
EXTENDS Integers, Sequences, FiniteSets, TLC

\* Number of handler invocations that may be in flight together (SpecConc).
NumReqs == 2

Reqs == 1..NumReqs

\* The invocation followed by Spec, which explores one invocation with the
\* full input domain.
FirstReq == CHOOSE r \in Reqs : \A q \in Reqs : r <= q

(***************************************************************************)
(* JavaScript values                                                       *)
(***************************************************************************)
\* The value undefined, where a string could stand (a missing body field, a
\* missing header, an unset environment variable).
Undefined == "<undefined>"

\* ToBoolean of a string-or-undefined value: undefined and "" are falsy.
Truthy(v) == v \notin {Undefined, ""}

\* A JSON value as found in a field of the model's reply.
JUndefined == [t |-> "undefined", n |-> 0, s |-> ""]
JNull == [t |-> "null", n |-> 0, s |-> ""]
JNum(k) == [t |-> "num", n |-> k, s |-> ""]
JStr(x) == [t |-> "str", n |-> 0, s |-> x]

\* x ?? d falls back to d exactly when x is null or undefined.
Nullish(v) == v.t \in {"undefined", "null"}

(***************************************************************************)
(* Inputs of one invocation                                                *)
(***************************************************************************)
Methods == {"POST", "GET", "PUT"}
FieldVals == {Undefined, "", "x"}
Bodies == [business_id : FieldVals, reviewer_name : FieldVals,
           phone : FieldVals, content : FieldVals]
NoBodyFields == [business_id |-> Undefined, reviewer_name |-> Undefined,
                 phone |-> Undefined, content |-> Undefined]
ValidBody == [business_id |-> "x", reviewer_name |-> "x",
              phone |-> "x", content |-> "x"]
Headers == {Undefined, "", "s3cret", "wrong"}
Secrets == {Undefined, "", "s3cret"}

\* req: method, body (hasBody = FALSE is req.body undefined or null) and the
\* x-webhook-secret header.
Requests ==
    [method : Methods, hasBody : {TRUE}, body : Bodies, secret : Headers]
    \cup [method : Methods, hasBody : {FALSE}, body : {NoBodyFields},
          secret : Headers]

\* The narrow input domain of SpecConc.
ConcRequests ==
    { [method |-> "POST", hasBody |-> TRUE, body |-> ValidBody, secret |-> "s3cret"],
      [method |-> "POST", hasBody |-> TRUE,
       body |-> [ValidBody EXCEPT !.content = Undefined], secret |-> "s3cret"],
      [method |-> "POST", hasBody |-> TRUE, body |-> ValidBody, secret |-> "wrong"],
      [method |-> "GET", hasBody |-> FALSE, body |-> NoBodyFields,
       secret |-> Undefined] }

NoRequest == [method |-> "", hasBody |-> FALSE, body |-> NoBodyFields,
              secret |-> Undefined]

(***************************************************************************)
(* Replies of the moderation service                                       *)
(***************************************************************************)
SafetyVals == {-10, 0, 10, 29, 30, 69, 70, 90, 100, 150}
SentimentVals == {-150, -20, 0, 50, 150}
Actions == {"allow", "flag", "block", "unknown"}

\* geminiData, seen through candidates[0].content.parts[0].text:
\*   missing  the optional chain yields undefined (no candidates, an error body)
\*   empty    the text is ""
\*   garbage  the text is not JSON (prose, a fenced block)
\*   null     the text is the JSON literal null
\*   scalar   the text is a JSON value that is truthy and has no fields (7)
\*   object   the text is a JSON object with the fields given
TextOf(kind, sa, se, ac) ==
    [kind |-> kind, safety_score |-> sa, sentiment_score |-> se, action |-> ac]
PlainText(kind) == TextOf(kind, JUndefined, JUndefined, JUndefined)
EmptyObject == PlainText("object")

GeminiDatas ==
    { PlainText(k) : k \in {"missing", "empty", "garbage", "null", "scalar"} }
    \cup { TextOf("object", sa, se, ac) :
             sa \in {JUndefined, JNull} \cup { JNum(k) : k \in SafetyVals },
             se \in {JUndefined, JNull} \cup { JNum(k) : k \in SentimentVals },
             ac \in {JUndefined, JNull} \cup { JStr(a) : a \in Actions } }

ConcGeminiDatas ==
    { PlainText("missing"),
      TextOf("object", JNum(10), JNum(50), JStr("allow")),
      TextOf("object", JNum(90), JNum(-20), JStr("flag")) }

NoData == PlainText("none")

ErrMsgs == {"network timeout", ""}
InsertErrs == {"duplicate key value", ""}
ConcErrMsgs == {"network timeout"}
ConcInsertErrs == {"duplicate key value"}

(***************************************************************************)
(* The handler's pure parts                                                *)
(***************************************************************************)
\* Variant: PUT is let through as well.
MethodAllowedOrPut(method) == method \in {"POST", "PUT"}

\* if (req.method !== "POST") return 405
MethodAllowed(method) == method = "POST"

\* Variant: the check forgets content.
MissingFieldsButContent(body) ==
    \/ ~Truthy(body.business_id)
    \/ ~Truthy(body.reviewer_name)
    \/ ~Truthy(body.phone)

\* !business_id || !reviewer_name || !phone || !content
MissingFields(body) ==
    \/ ~Truthy(body.business_id)
    \/ ~Truthy(body.reviewer_name)
    \/ ~Truthy(body.phone)
    \/ ~Truthy(body.content)

\* Variant: a request that sends no header is not checked.
SecretRejectedIfSent(configured, supplied) ==
    Truthy(configured) /\ supplied # Undefined /\ supplied # configured

\* Variant: the comparison is made even when no secret is configured.
SecretRejectedAlways(configured, supplied) == supplied # configured

\* process.env.WEBHOOK_SECRET && secret !== process.env.WEBHOOK_SECRET
SecretRejected(configured, supplied) ==
    Truthy(configured) /\ supplied # configured

\* geminiData?.candidates?.[0]?.content?.parts?.[0]?.text || "{}"
ModelText(geminiData) ==
    IF geminiData.kind \in {"missing", "empty"} THEN EmptyObject ELSE geminiData

\* JSON.parse: throws on text that is not JSON, yields the value otherwise.
JSONParse(text) ==
    IF text.kind \in {"garbage", "empty", "missing"}
    THEN [threw |-> TRUE, value |-> PlainText("null")]
    ELSE [threw |-> FALSE, value |-> text]

\* safeJSON: the parsed value, or null when JSON.parse throws.
safeJSON(text) ==
    LET p == JSONParse(text) IN IF p.threw THEN PlainText("null") ELSE p.value

\* safeJSON(modelText) || {}
ResultOf(geminiData) ==
    LET v == safeJSON(ModelText(geminiData))
    IN IF v.kind = "null" THEN EmptyObject ELSE v

DefaultSafety == 0
DefaultSentiment == 0
\* Variant: the action defaults to "allow".
DefaultActionAllow == "allow"

DefaultAction == "flag"

\* Variant: the returned score is used only when the reply is complete.
SafetyOfCompleteReply(result) ==
    IF Nullish(result.safety_score) \/ Nullish(result.sentiment_score)
       \/ Nullish(result.action)
    THEN DefaultSafety ELSE result.safety_score.n

\* result.safety_score ?? 0, result.sentiment_score ?? 0, result.action ?? "flag"
SafetyOf(result) ==
    IF Nullish(result.safety_score) THEN DefaultSafety ELSE result.safety_score.n
\* Variant: the sentiment score is clamped to its nominal range -1 .. 1.
SentimentOfClamped(result) ==
    IF Nullish(result.sentiment_score) THEN DefaultSentiment
    ELSE IF result.sentiment_score.n > 100 THEN 100
    ELSE IF result.sentiment_score.n < -100 THEN -100
    ELSE result.sentiment_score.n

SentimentOf(result) ==
    IF Nullish(result.sentiment_score) THEN DefaultSentiment
    ELSE result.sentiment_score.n
ActionOf(result) ==
    IF Nullish(result.action) THEN DefaultAction ELSE result.action.s

\* The thresholds 0.3 and 0.7, in hundredths.
ApproveBelow == 30
FlagFrom == 70

\* Variant: approval needs only one of its two conditions.
DecideEitherApproves(safety, action) ==
    IF action = "allow" \/ safety < ApproveBelow THEN "approved"
    ELSE IF action = "block" \/ safety >= FlagFrom THEN "flagged"
    ELSE "pending"

\* Variant: anything that is not blocked is approved on a low score.
DecideUnlessBlocked(safety, action) ==
    IF action # "block" /\ safety < ApproveBelow THEN "approved"
    ELSE IF action = "block" \/ safety >= FlagFrom THEN "flagged"
    ELSE "pending"

\* Variant: the approval threshold is inclusive.
DecideInclusive(safety, action) ==
    IF action = "allow" /\ safety <= ApproveBelow THEN "approved"
    ELSE IF action = "block" \/ safety >= FlagFrom THEN "flagged"
    ELSE "pending"

\* let status = "pending"; if (...) status = "approved"; else if (...) status = "flagged"
Decide(safety, action) ==
    IF action = "allow" /\ safety < ApproveBelow THEN "approved"
    ELSE IF action = "block" \/ safety >= FlagFrom THEN "flagged"
    ELSE "pending"

\* Variant: a neutral score counts as positive.
IsPositiveOrZero(sentiment) == sentiment >= 0

\* is_positive: sentiment > 0
IsPositive(sentiment) == sentiment > 0

\* The object handed to insert([...]).
ReviewRow(body, status, sentiment) ==
    [business_id |-> body.business_id, reviewer_name |-> body.reviewer_name,
     phone |-> body.phone, content |-> body.content, status |-> status,
     sentiment_score |-> sentiment, is_positive |-> IsPositive(sentiment)]

\* res.status(code).json(body); a field the body does not have is Undefined
\* (ok: FALSE).
ErrorResponse(code, msg) ==
    [code |-> code, error |-> msg, ok |-> FALSE, message |-> Undefined,
     status |-> Undefined]
MethodNotAllowed == ErrorResponse(405, "Method not allowed")
MissingRequiredFields == ErrorResponse(400, "Missing required fields")
InvalidWebhookSecret == ErrorResponse(401, "Invalid webhook secret")
\* Variant: the storage error goes through the catch block's fallback.
InsertFailedWithFallback(msg) ==
    ErrorResponse(500, IF Truthy(msg) THEN msg ELSE "Internal error")
\* return res.status(500).json({ error: insertError.message })
InsertFailed(msg) == ErrorResponse(500, msg)
\* Variant: the catch block passes the message on without a fallback.
ServerErrorNoFallback(msg) == ErrorResponse(500, msg)
\* catch (err): res.status(500).json({ error: err.message || "Internal error" })
ServerError(msg) == ErrorResponse(500, IF Truthy(msg) THEN msg ELSE "Internal error")
\* Variant: the response reports the initial value of status.
SuccessInitialStatus(status) ==
    [code |-> 200, error |-> Undefined, ok |-> TRUE,
     message |-> "Review received successfully.", status |-> "pending"]
\* res.status(200).json({ ok: true, message: ..., status })
Success(status) ==
    [code |-> 200, error |-> Undefined, ok |-> TRUE,
     message |-> "Review received successfully.", status |-> status]

\* The TypeError of destructuring req.body when it is undefined or null.
DestructureError ==
    "Cannot destructure property 'business_id' of 'req.body' as it is undefined."

\* Variant: an upsert, which keeps one row per content.
UpsertRow(table, row, r) ==
    IF \E i \in DOMAIN table : table[i].row = row THEN table
    ELSE Append(table, [row |-> row, by |-> r])

\* supabase.from("reviews").insert([row]): a plain insert, one new row.
InsertRow(table, row, r) == Append(table, [row |-> row, by |-> r])

(***************************************************************************)
(* State                                                                   *)
(***************************************************************************)
VARIABLES
    webhookSecret,   \* process.env.WEBHOOK_SECRET, read-only
    pc,              \* per invocation: "idle", "fetch", "json", "insert", "done"
    req,             \* per invocation: the request it was invoked with
    io,              \* per invocation: what its external calls answered
    local,           \* per invocation: safety, sentiment, action, status
    moderationCalls, \* per invocation: fetch calls issued to the moderation service
    insertCalls,     \* per invocation: insert calls issued to the datastore
    res,             \* per invocation: the responses sent, in order
    reviews          \* the "reviews" table: the inserted rows, in order

vars == <<webhookSecret, pc, req, io, local, moderationCalls, insertCalls,
          res, reviews>>

NoIO == [fetch |-> "none", json |-> "none", geminiData |-> NoData,
         insert |-> "none", message |-> Undefined]
NoLocal == [safety |-> 0, sentiment |-> 0, action |-> "", status |-> ""]

Init ==
    /\ webhookSecret \in Secrets
    /\ pc = [r \in Reqs |-> "idle"]
    /\ req = [r \in Reqs |-> NoRequest]
    /\ io = [r \in Reqs |-> NoIO]
    /\ local = [r \in Reqs |-> NoLocal]
    /\ moderationCalls = [r \in Reqs |-> 0]
    /\ insertCalls = [r \in Reqs |-> 0]
    /\ res = [r \in Reqs |-> <<>>]
    /\ reviews = <<>>

\* The handler returns after sending one response.
Respond(r, response) ==
    /\ res' = [res EXCEPT ![r] = Append(@, response)]
    /\ pc' = [pc EXCEPT ![r] = "done"]

(***************************************************************************)
(* handler, from its entry to the await of fetch                           *)
(***************************************************************************)
Invoke(r, Inputs) ==
    /\ pc[r] = "idle"
    /\ \E q \in Inputs :
        /\ req' = [req EXCEPT ![r] = q]
        /\ IF ~MethodAllowed(q.method)
           THEN Respond(r, MethodNotAllowed) /\ UNCHANGED moderationCalls
           ELSE IF ~q.hasBody
           THEN Respond(r, ServerError(DestructureError)) /\ UNCHANGED moderationCalls
           ELSE IF MissingFields(q.body)
           THEN Respond(r, MissingRequiredFields) /\ UNCHANGED moderationCalls
           ELSE IF SecretRejected(webhookSecret, q.secret)
           THEN Respond(r, InvalidWebhookSecret) /\ UNCHANGED moderationCalls
           ELSE /\ moderationCalls' = [moderationCalls EXCEPT ![r] = @ + 1]
                /\ pc' = [pc EXCEPT ![r] = "fetch"]
                /\ UNCHANGED res
    /\ UNCHANGED <<webhookSecret, io, local, insertCalls, reviews>>

(***************************************************************************)
(* await fetch(...): the promise rejects (transport error, timeout) or     *)
(* resolves with a response, whose status the handler does not read        *)
(***************************************************************************)
FetchReturns(r, Errors) ==
    /\ pc[r] = "fetch"
    /\ \/ \E m \in Errors :
            /\ io' = [io EXCEPT ![r].fetch = "rejected", ![r].message = m]
            /\ Respond(r, ServerError(m))
       \/ /\ io' = [io EXCEPT ![r].fetch = "resolved"]
          /\ pc' = [pc EXCEPT ![r] = "json"]
          /\ UNCHANGED res
    /\ UNCHANGED <<webhookSecret, req, local, moderationCalls, insertCalls, reviews>>

(***************************************************************************)
(* await geminiResponse.json(), then the handler up to the await of insert *)
(***************************************************************************)
JsonReturns(r, Errors, Datas) ==
    /\ pc[r] = "json"
    /\ \/ \E m \in Errors :
            /\ io' = [io EXCEPT ![r].json = "rejected", ![r].message = m]
            /\ Respond(r, ServerError(m))
            /\ UNCHANGED <<local, insertCalls>>
       \/ \E geminiData \in Datas :
            LET result == ResultOf(geminiData)
                safety == SafetyOf(result)
                sentiment == SentimentOf(result)
                action == ActionOf(result)
                status == Decide(safety, action)
            IN /\ io' = [io EXCEPT ![r].json = "resolved",
                                   ![r].geminiData = geminiData]
               /\ local' = [local EXCEPT ![r] =
                              [safety |-> safety, sentiment |-> sentiment,
                               action |-> action, status |-> status]]
               /\ insertCalls' = [insertCalls EXCEPT ![r] = @ + 1]
               /\ pc' = [pc EXCEPT ![r] = "insert"]
               /\ UNCHANGED res
    /\ UNCHANGED <<webhookSecret, req, moderationCalls, reviews>>

\* Variant: the return after the storage error is missing, so the handler
\* goes on to the success response.
InsertReturnsNoReturn(r, Errors, InsertErrors) ==
    /\ pc[r] = "insert"
    /\ \/ \E m \in Errors :
            /\ io' = [io EXCEPT ![r].insert = "rejected", ![r].message = m]
            /\ Respond(r, ServerError(m))
            /\ UNCHANGED reviews
       \/ \E m \in InsertErrors :
            /\ io' = [io EXCEPT ![r].insert = "error", ![r].message = m]
            /\ res' = [res EXCEPT ![r] =
                         Append(Append(@, InsertFailed(m)), Success(local[r].status))]
            /\ pc' = [pc EXCEPT ![r] = "done"]
            /\ UNCHANGED reviews
       \/ /\ io' = [io EXCEPT ![r].insert = "ok"]
          /\ reviews' = InsertRow(reviews,
                                  ReviewRow(req[r].body, local[r].status,
                                            local[r].sentiment), r)
          /\ Respond(r, Success(local[r].status))
    /\ UNCHANGED <<webhookSecret, req, local, moderationCalls, insertCalls>>

\* Variant: status is kept in a variable of the module, shared by the
\* invocations: the response reports the status some invocation decided.
InsertReturnsSharedStatus(r, Errors, InsertErrors) ==
    /\ pc[r] = "insert"
    /\ \/ \E m \in Errors :
            /\ io' = [io EXCEPT ![r].insert = "rejected", ![r].message = m]
            /\ Respond(r, ServerError(m))
            /\ UNCHANGED reviews
       \/ \E m \in InsertErrors :
            /\ io' = [io EXCEPT ![r].insert = "error", ![r].message = m]
            /\ Respond(r, InsertFailed(m))
            /\ UNCHANGED reviews
       \/ /\ io' = [io EXCEPT ![r].insert = "ok"]
          /\ reviews' = InsertRow(reviews,
                                  ReviewRow(req[r].body, local[r].status,
                                            local[r].sentiment), r)
          /\ \E q \in Reqs :
               /\ io[q].json = "resolved"
               /\ Respond(r, Success(local[q].status))
    /\ UNCHANGED <<webhookSecret, req, local, moderationCalls, insertCalls>>

(***************************************************************************)
(* await supabase.from("reviews").insert([...]): the call throws, or       *)
(* returns { error } with the row refused, or { error: null } with the row *)
(* stored; then the handler to its end                                     *)
(***************************************************************************)
InsertReturns(r, Errors, InsertErrors) ==
    /\ pc[r] = "insert"
    /\ \/ \E m \in Errors :
            /\ io' = [io EXCEPT ![r].insert = "rejected", ![r].message = m]
            /\ Respond(r, ServerError(m))
            /\ UNCHANGED reviews
       \/ \E m \in InsertErrors :
            /\ io' = [io EXCEPT ![r].insert = "error", ![r].message = m]
            /\ Respond(r, InsertFailed(m))
            /\ UNCHANGED reviews
       \/ /\ io' = [io EXCEPT ![r].insert = "ok"]
          /\ reviews' = InsertRow(reviews,
                                  ReviewRow(req[r].body, local[r].status,
                                            local[r].sentiment), r)
          /\ Respond(r, Success(local[r].status))
    /\ UNCHANGED <<webhookSecret, req, local, moderationCalls, insertCalls>>

(***************************************************************************)
(* Specifications                                                          *)
(***************************************************************************)
\* One invocation, every input and every external answer of the domains above.
Next ==
    \/ Invoke(FirstReq, Requests)
    \/ FetchReturns(FirstReq, ErrMsgs)
    \/ JsonReturns(FirstReq, ErrMsgs, GeminiDatas)
    \/ InsertReturns(FirstReq, ErrMsgs, InsertErrs)

Spec == Init /\ [][Next]_vars

\* NumReqs invocations interleaved at their awaits, on a narrow input domain.
NextConc ==
    \E r \in Reqs :
        \/ Invoke(r, ConcRequests)
        \/ FetchReturns(r, ConcErrMsgs)
        \/ JsonReturns(r, ConcErrMsgs, ConcGeminiDatas)
        \/ InsertReturns(r, ConcErrMsgs, ConcInsertErrs)

SpecConc == Init /\ [][NextConc]_vars

\* The same, with every awaited external call eventually settling (resolving
\* or rejecting) and the event loop then resuming the handler.
Resume(r) ==
    \/ FetchReturns(r, ConcErrMsgs)
    \/ JsonReturns(r, ConcErrMsgs, ConcGeminiDatas)
    \/ InsertReturns(r, ConcErrMsgs, ConcInsertErrs)

FairConc == SpecConc /\ \A r \in Reqs : WF_vars(Resume(r))

(***************************************************************************)
(* Vocabulary of the properties                                            *)
(***************************************************************************)
\* The invocation r has been started with a request.
Started(r) == pc[r] # "idle"

\* All four required fields of the request are present and truthy.
AllFieldsPresent(q) ==
    /\ q.hasBody
    /\ \A v \in {q.body.business_id, q.body.reviewer_name, q.body.phone,
                 q.body.content} : v # Undefined /\ v # ""

\* A shared secret is configured (set and not empty).
SecretConfigured == webhookSecret # Undefined /\ webhookSecret # ""

\* The positions of the table's rows that invocation r inserted.
RowsBy(r) == { i \in DOMAIN reviews : reviews[i].by = r }

\* The invocation sent exactly one response: the error response code/msg.
SentError(r, code, msg) ==
    /\ Len(res[r]) = 1
    /\ res[r][1].code = code
    /\ res[r][1].error = msg
    /\ res[r][1].ok = FALSE

\* The invocation made no downstream call: no moderation call, no insert.
NoDownstream(r) ==
    /\ moderationCalls[r] = 0
    /\ insertCalls[r] = 0
    /\ RowsBy(r) = {}

\* The moderation call of r failed: fetch threw or timed out, or the body of
\* its response could not be parsed.
ModerationFailed(r) == io[r].fetch = "rejected" \/ io[r].json = "rejected"

(***************************************************************************)
(* C1: a POST request with all four fields whose moderation call fails     *)
(* (fetch throws or times out, or the response body cannot be parsed) is   *)
(* still completed: the defaults are used, the row is inserted with status *)
(* "pending" and is_positive false, and the response is 200.               *)
(***************************************************************************)
C1_ModerationFailureRecovered ==
    \A r \in Reqs :
        (pc[r] = "done" /\ AllFieldsPresent(req[r]) /\ ModerationFailed(r)) =>
            /\ Len(res[r]) = 1
            /\ res[r][1].code = 200
            /\ \E i \in RowsBy(r) :
                 /\ reviews[i].row.status = "pending"
                 /\ reviews[i].row.is_positive = FALSE

(***************************************************************************)
(* C2, as stated: every POST request that arrives while a shared secret is *)
(* configured and carries a different (or no) x-webhook-secret header is   *)
(* answered 401 "Invalid webhook secret" with no moderation call and no    *)
(* insert.                                                                 *)
(***************************************************************************)
C2_EveryBadSecretIs401 ==
    \A r \in Reqs :
        (Started(r) /\ req[r].method = "POST" /\ SecretConfigured
           /\ req[r].secret # webhookSecret) =>
            /\ SentError(r, 401, "Invalid webhook secret")
            /\ NoDownstream(r)

(***************************************************************************)
(* C2, amended: a POST request with all four required fields present that  *)
(* arrives while a shared secret is configured and carries a different (or *)
(* no) header is answered 401 "Invalid webhook secret"; and no POST        *)
(* request with such a header, whatever its fields, causes a moderation    *)
(* call or an insert.                                                      *)
(***************************************************************************)
C2_BadSecretRejected ==
    \A r \in Reqs :
        (Started(r) /\ req[r].method = "POST" /\ SecretConfigured
           /\ req[r].secret # webhookSecret) =>
            /\ pc[r] = "done"
            /\ NoDownstream(r)
            /\ AllFieldsPresent(req[r]) =>
                 SentError(r, 401, "Invalid webhook secret")

C2_Witness ==
    \E r \in Reqs :
        /\ pc[r] = "done" /\ req[r].method = "POST" /\ SecretConfigured
        /\ AllFieldsPresent(req[r])
        /\ req[r].secret = Undefined
        /\ SentError(r, 401, "Invalid webhook secret")

(***************************************************************************)
(* C3: every POST request in which one of business_id, reviewer_name,      *)
(* phone, content is absent or falsy is answered 400 "Missing required     *)
(* fields", with no moderation call and no insert.                         *)
(***************************************************************************)
C3_MissingFieldsRejected ==
    \A r \in Reqs :
        (Started(r) /\ req[r].method = "POST" /\ ~AllFieldsPresent(req[r])) =>
            /\ SentError(r, 400, "Missing required fields")
            /\ NoDownstream(r)

(***************************************************************************)
(* C4: the status decided from (safety_score, action) is the reference     *)
(* policy: approved iff action is "allow" and safety_score < 0.3;          *)
(* otherwise flagged iff action is "block" or safety_score >= 0.7;         *)
(* otherwise pending.                                                      *)
(***************************************************************************)
C4_StatusIsPolicy ==
    \A r \in Reqs :
        io[r].json = "resolved" =>
            LET s == local[r].safety
                a == local[r].action
                approved == a = "allow" /\ s < 30
                flagged == a = "block" \/ s >= 70
            IN /\ local[r].status \in {"approved", "flagged", "pending"}
               /\ local[r].status = "approved" <=> approved
               /\ local[r].status = "flagged" <=> (~approved /\ flagged)
               /\ local[r].status = "pending" <=> (~approved /\ ~flagged)

\* An explicit "block" overrides a low score, just under the 0.3 boundary.
C4_Witness ==
    \E r \in Reqs :
        /\ io[r].json = "resolved"
        /\ local[r].action = "block" /\ local[r].safety = 29
        /\ local[r].status = "flagged"

(***************************************************************************)
(* C5: when the insert of a request returns an error with message m, the   *)
(* response is 500 with error exactly m, the moderation call has happened, *)
(* the insert was attempted exactly once, no row is stored and no 200 is   *)
(* sent.                                                                   *)
(***************************************************************************)
C5_InsertErrorSurfaced ==
    \A r \in Reqs :
        io[r].insert = "error" =>
            /\ pc[r] = "done"
            /\ SentError(r, 500, io[r].message)
            /\ moderationCalls[r] = 1
            /\ insertCalls[r] = 1
            /\ RowsBy(r) = {}

\* The insert fails with an empty message, which is passed on as it is.
C5_Witness ==
    \E r \in Reqs :
        /\ io[r].insert = "error" /\ io[r].message = ""
        /\ SentError(r, 500, "")
        /\ moderationCalls[r] = 1

(***************************************************************************)
(* C6: when no shared secret is configured the secret check is skipped: a  *)
(* POST request with all required fields proceeds to the moderation call   *)
(* whatever its x-webhook-secret header, and no 401 is ever sent.          *)
(***************************************************************************)
C6_NoSecretNoCheck ==
    ~SecretConfigured =>
        \A r \in Reqs :
            /\ \A k \in DOMAIN res[r] : res[r][k].code # 401
            /\ (Started(r) /\ req[r].method = "POST" /\ AllFieldsPresent(req[r]))
                 => moderationCalls[r] = 1

C6_Witness ==
    /\ webhookSecret = Undefined
    /\ \E r \in Reqs :
         /\ req[r].method = "POST" /\ req[r].secret = "wrong"
         /\ moderationCalls[r] = 1

(***************************************************************************)
(* C7: every inserted row has is_positive = (sentiment_score > 0), and its *)
(* sentiment_score is the sentiment score of the moderation result, copied *)
(* unchanged; a score of 0, the default included, gives false.             *)
(***************************************************************************)
C7_IsPositiveIsSign ==
    \A i \in DOMAIN reviews :
        LET row == reviews[i].row
            d == io[reviews[i].by].geminiData
        IN /\ row.is_positive = (row.sentiment_score > 0)
           /\ row.sentiment_score = local[reviews[i].by].sentiment
           /\ (d.kind = "object" /\ d.sentiment_score.t = "num")
                => row.sentiment_score = d.sentiment_score.n
           /\ (d.kind # "object" \/ d.sentiment_score.t # "num")
                => row.sentiment_score = 0

\* A row whose score is the defaulted 0.
C7_Witness ==
    \E i \in DOMAIN reviews :
        /\ io[reviews[i].by].geminiData.kind = "missing"
        /\ reviews[i].row.sentiment_score = 0
        /\ reviews[i].row.is_positive = FALSE

(***************************************************************************)
(* C8: a request causes exactly one insert call when it reaches the        *)
(* persistence step and none otherwise, and every insert that succeeds     *)
(* adds a row of its own: N requests whose inserts succeed give N rows,    *)
(* identical content or not, in any interleaving.                          *)
(***************************************************************************)
C8_OneRowPerInsert ==
    /\ \A r \in Reqs :
         /\ insertCalls[r] =
              IF pc[r] = "insert" \/ io[r].insert # "none" THEN 1 ELSE 0
         /\ Cardinality(RowsBy(r)) = IF io[r].insert = "ok" THEN 1 ELSE 0
    /\ Len(reviews) = Cardinality({ r \in Reqs : io[r].insert = "ok" })

\* Two requests with the same content and the same moderation result, both
\* stored.
C8_Witness ==
    \E i, j \in DOMAIN reviews :
        /\ i # j
        /\ reviews[i].by # reviews[j].by
        /\ reviews[i].row = reviews[j].row

(***************************************************************************)
(* C9: a 200 response (ok: true, "Review received successfully.") is sent  *)
(* only once the insert of that request has succeeded, and its status is   *)
(* the status stored in the row inserted for that request.                 *)
(***************************************************************************)
C9_SuccessAfterInsert ==
    \A r \in Reqs :
        \A k \in DOMAIN res[r] :
            res[r][k].code = 200 =>
                /\ io[r].insert = "ok"
                /\ res[r][k].ok = TRUE
                /\ res[r][k].message = "Review received successfully."
                /\ RowsBy(r) # {}
                /\ \A i \in RowsBy(r) : reviews[i].row.status = res[r][k].status

C9_Witness ==
    \E r \in Reqs :
        /\ Len(res[r]) = 1 /\ res[r][1].code = 200
        /\ res[r][1].status = "approved"
        /\ \E i \in RowsBy(r) : reviews[i].row.status = "approved"

(***************************************************************************)
(* C10: a request whose method is not POST is answered 405 "Method not     *)
(* allowed" and has no other effect: no moderation call, no insert, no     *)
(* external answer awaited.                                                *)
(***************************************************************************)
C10_NonPostIs405 ==
    \A r \in Reqs :
        (Started(r) /\ req[r].method # "POST") =>
            /\ pc[r] = "done"
            /\ SentError(r, 405, "Method not allowed")
            /\ NoDownstream(r)
            /\ io[r] = NoIO

\* A PUT with a complete body and the right secret is refused all the same.
C10_Witness ==
    \E r \in Reqs :
        /\ req[r].method = "PUT" /\ AllFieldsPresent(req[r])
        /\ req[r].secret = webhookSecret
        /\ SentError(r, 405, "Method not allowed")

C12_DefaultsPerField ==
    \A r \in Reqs :
        (io[r].json = "resolved" /\ io[r].geminiData.kind = "object") =>
            LET d == io[r].geminiData
                absent(v) == v.t = "undefined" \/ v.t = "null"
            IN /\ local[r].safety =
                    IF absent(d.safety_score) THEN 0 ELSE d.safety_score.n
               /\ local[r].sentiment =
                    IF absent(d.sentiment_score) THEN 0 ELSE d.sentiment_score.n
               /\ local[r].action =
                    IF absent(d.action) THEN "flag" ELSE d.action.s
               /\ (absent(d.safety_score) /\ absent(d.sentiment_score)
                     /\ ~absent(d.action) /\ d.action.s = "allow")
                    => local[r].status = "approved"
               /\ (~absent(d.safety_score) /\ d.safety_score.n = 10
                     /\ absent(d.sentiment_score) /\ absent(d.action))
                    => local[r].status = "pending"

\* A reply that carries a safety_score and an action but no sentiment_score:
\* the two returned values are kept, the third is defaulted.
C12_Witness ==
    \E r \in Reqs :
        /\ io[r].json = "resolved" /\ io[r].geminiData.kind = "object"
        /\ io[r].geminiData.safety_score.t = "num"
        /\ io[r].geminiData.sentiment_score.t = "undefined"
        /\ io[r].geminiData.action.t = "str"
        /\ local[r].safety = 90 /\ local[r].sentiment = 0
        /\ local[r].action = "allow"

(***************************************************************************)
(* C13: a request goes through the steps in order and skips none: the      *)
(* moderation call is made only after the field check and the secret check *)
(* passed, the insert only after the moderation call of that request       *)
(* returned and the status was decided, and once a response is sent (400,  *)
(* 401 and 500 included) the request makes no moderation call, no insert   *)
(* and sends no second response.                                           *)
(***************************************************************************)
C13_OrderOfCalls ==
    \A r \in Reqs :
        /\ pc[r] \in {"idle", "fetch", "json", "insert"} <=> res[r] = <<>>
        /\ moderationCalls[r] > 0 =>
             /\ req[r].method = "POST"
             /\ AllFieldsPresent(req[r])
             /\ ~(SecretConfigured /\ req[r].secret # webhookSecret)
        /\ insertCalls[r] > 0 =>
             /\ moderationCalls[r] = 1
             /\ io[r].fetch = "resolved"
             /\ io[r].json = "resolved"
             /\ local[r].status \in {"approved", "flagged", "pending"}
        /\ RowsBy(r) # {} => insertCalls[r] = 1 /\ io[r].insert = "ok"

C13_StepsInOrder ==
    \A r \in Reqs :
        /\ pc'[r] # pc[r] =>
             <<pc[r], pc'[r]>> \in
                 { <<"idle", "fetch">>, <<"fetch", "json">>, <<"json", "insert">>,
                   <<"idle", "done">>, <<"fetch", "done">>, <<"json", "done">>,
                   <<"insert", "done">> }
        /\ res[r] # <<>> =>
             /\ res'[r] = res[r]
             /\ moderationCalls'[r] = moderationCalls[r]
             /\ insertCalls'[r] = insertCalls[r]
             /\ RowsBy(r)' = RowsBy(r)
             /\ pc'[r] = "done"

C13_Pipeline == [](C13_OrderOfCalls) /\ [][C13_StepsInOrder]_vars

\* A request that went all the way: one moderation call, then one insert,
\* then one response.
C13_Witness ==
    \E r \in Reqs :
        /\ pc[r] = "done"
        /\ moderationCalls[r] = 1 /\ insertCalls[r] = 1
        /\ io[r].insert = "error"
        /\ Len(res[r]) = 1 /\ res[r][1].code = 500

(***************************************************************************)
(* C14: an exception thrown after the method check (reading the fields of  *)
(* an absent body, the moderation call, the parsing of its response, the   *)
(* insert call) is caught at the top level: the response is 500 with the   *)
(* exception's message, or "Internal error" when the message is empty, and *)
(* the handler ends normally with that one response.                       *)
(***************************************************************************)
C14_ExceptionsCaught ==
    \A r \in Reqs :
        /\ (Started(r) /\ req[r].method = "POST" /\ ~req[r].hasBody) =>
             /\ pc[r] = "done"
             /\ SentError(r, 500,
                  "Cannot destructure property 'business_id' of 'req.body' as it is undefined.")
        /\ (io[r].fetch = "rejected" \/ io[r].json = "rejected"
              \/ io[r].insert = "rejected") =>
             /\ pc[r] = "done"
             /\ SentError(r, 500, IF io[r].message = "" THEN "Internal error"
                                  ELSE io[r].message)
             /\ RowsBy(r) = {}

\* The insert call throws an error without a message.
C14_Witness ==
    \E r \in Reqs :
        /\ io[r].insert = "rejected" /\ io[r].message = ""
        /\ SentError(r, 500, "Internal error")

(***************************************************************************)
(* C15: the approved condition (action "allow" and safety_score < 0.3) and *)
(* the flagged condition (action "block" or safety_score >= 0.7) never     *)
(* hold together, so the status is one of approved, flagged, pending and   *)
(* is the same as if the flagged check were evaluated before the approved  *)
(* check.                                                                  *)
(***************************************************************************)
C15_ConditionsExclusive ==
    \A r \in Reqs :
        io[r].json = "resolved" =>
            LET s == local[r].safety
                a == local[r].action
                approved == a = "allow" /\ s < 30
                flagged == a = "block" \/ s >= 70
                flaggedFirst == IF flagged THEN "flagged"
                                ELSE IF approved THEN "approved"
                                ELSE "pending"
            IN /\ ~(approved /\ flagged)
               /\ local[r].status = flaggedFirst
               /\ Cardinality({ st \in {"approved", "flagged", "pending"} :
                                  local[r].status = st }) = 1

\* "allow" with a score at the 0.7 boundary: only the flagged condition holds.
C15_Witness ==
    \E r \in Reqs :
        /\ io[r].json = "resolved"
        /\ local[r].action = "allow" /\ local[r].safety = 70
        /\ local[r].status = "flagged"

RowSetBy(r) == { reviews[i].row : i \in RowsBy(r) }

C17_SameInputsSameOutcome ==
    \A r1, r2 \in Reqs :
        (req[r1] = req[r2] /\ io[r1] = io[r2] /\ pc[r1] = pc[r2]) =>
            /\ local[r1] = local[r2]
            /\ res[r1] = res[r2]
            /\ moderationCalls[r1] = moderationCalls[r2]
            /\ insertCalls[r1] = insertCalls[r2]
            /\ RowSetBy(r1) = RowSetBy(r2)
            /\ Cardinality(RowsBy(r1)) = Cardinality(RowsBy(r2))
            /\ \A k \in DOMAIN res[r1] :
                 res[r1][k].code = 200 =>
                     /\ res[r1][k].status = local[r1].status
                     /\ \A row \in RowSetBy(r1) :
                          /\ row.status = local[r1].status
                          /\ row.sentiment_score = local[r1].sentiment
                          /\ row.content = req[r1].body.content

C17_OthersUntouched ==
    /\ webhookSecret' = webhookSecret
    /\ Len(reviews') >= Len(reviews)
    /\ SubSeq(reviews', 1, Len(reviews)) = reviews
    /\ \A r \in Reqs :
         pc'[r] = pc[r] =>
             /\ req'[r] = req[r]
             /\ io'[r] = io[r]
             /\ local'[r] = local[r]
             /\ res'[r] = res[r]
             /\ moderationCalls'[r] = moderationCalls[r]
             /\ insertCalls'[r] = insertCalls[r]
             /\ RowsBy(r)' = RowsBy(r)

C17_Independent == [](C17_SameInputsSameOutcome) /\ [][C17_OthersUntouched]_vars

\* Two requests in flight together that ended differently: one stored as
\* approved, the other as flagged.
C17_Witness ==
    \E r1, r2 \in Reqs :
        /\ r1 # r2
        /\ res[r1] # <<>> /\ res[r2] # <<>>
        /\ res[r1][1].code = 200 /\ res[r1][1].status = "approved"
        /\ res[r2][1].code = 200 /\ res[r2][1].status = "flagged"
        /\ RowSetBy(r1) # RowSetBy(r2)

(***************************************************************************)
(* C18: provided every external call eventually returns or throws, every   *)
(* request eventually gets exactly one response, which is one of 405, 400, *)
(* 401, 500, 200; no path through the handler sends two responses or ends  *)
(* without one.                                                            *)
(***************************************************************************)
C18_AtMostOneResponse ==
    \A r \in Reqs :
        /\ Len(res[r]) <= 1
        /\ \A k \in DOMAIN res[r] : res[r][k].code \in {405, 400, 401, 500, 200}
        /\ pc[r] = "done" <=> Len(res[r]) = 1

C18_ExactlyOneResponse ==
    /\ [](C18_AtMostOneResponse)
    /\ \A r \in Reqs :
         Started(r) ~> (pc[r] = "done" /\ Len(res[r]) = 1)

\* Every invocation has been answered, one of them with 200 and one with 500.
C18_Witness ==
    /\ \A r \in Reqs : pc[r] = "done" /\ Len(res[r]) = 1
    /\ \E r1, r2 \in Reqs : res[r1][1].code = 200 /\ res[r2][1].code = 500

(***************************************************************************)
(* C19: the missing-field check runs before the secret check: a POST       *)
(* request that misses a required field and carries a wrong (or no) secret *)
(* while a secret is configured is answered 400 "Missing required fields", *)
(* never 401.                                                              *)
(***************************************************************************)
C19_MissingFieldBeforeSecret ==
    \A r \in Reqs :
        (Started(r) /\ req[r].method = "POST" /\ ~AllFieldsPresent(req[r])
           /\ SecretConfigured /\ req[r].secret # webhookSecret) =>
            /\ SentError(r, 400, "Missing required fields")
            /\ \A k \in DOMAIN res[r] : res[r][k].code # 401

(***************************************************************************)
(* C20: approval fails closed: a row is stored as "approved" only if the   *)
(* parsed reply of the moderation service carried action exactly "allow"   *)
(* and a safety_score that is absent or < 0.3; when the action is          *)
(* defaulted, missing or any other label the stored status is not          *)
(* approved.                                                               *)
(***************************************************************************)
C20_ApprovalFailsClosed ==
    \A i \in DOMAIN reviews :
        LET d == io[reviews[i].by].geminiData
            allowed == d.kind = "object" /\ d.action.t = "str" /\ d.action.s = "allow"
            low == d.safety_score.t \in {"undefined", "null"}
                   \/ (d.safety_score.t = "num" /\ d.safety_score.n < 30)
        IN /\ reviews[i].row.status = "approved" => (allowed /\ low)
           /\ ~allowed => reviews[i].row.status \in {"pending", "flagged"}

\* Approved on "allow" alone, the safety score being absent.
C20_Witness ==
    \E i \in DOMAIN reviews :
        /\ reviews[i].row.status = "approved"
        /\ io[reviews[i].by].geminiData.action = JStr("allow")
        /\ io[reviews[i].by].geminiData.safety_score = JUndefined

====
